---- MODULE Spec2Model ----
(***************************************************************************)
(* A model of the Linear MCP server (src/index.ts, the later of the two    *)
(* versions the file holds, lines 620-1229): the Markdown image extractor, *)
(* the on-disk media cache, the media resolution pipeline, the priority    *)
(* formatter and the tool handlers.                                        *)
(*                                                                         *)
(* Strings are sequences of tokens; a token is a TLA+ string standing for  *)
(* one character or for an opaque run of ordinary characters.              *)
(***************************************************************************)
EXTENDS Integers, Sequences, FiniteSets, TLC

VARIABLES
    fpIn,       \* formatPriority: the argument
    fpOut,      \* formatPriority: the returned label, "" before the call
    fpDone,     \* formatPriority: has the call returned
    exDoc,      \* extractImageUrls: the document, as a sequence of segments
    exOut,      \* extractImageUrls: the returned list, <<>> before the call
    exDone,     \* extractImageUrls: has the call returned
    files,      \* the cache directory: path -> [state, by]
    pm,         \* the processMarkdownWithImages calls: call -> its record
    tool,       \* the tool handler that is running or has last returned
    pc,         \* its position: "idle", an await of the handler, "returned"
    args,       \* its arguments
    loc,        \* its local variables
    api,        \* the tracker calls the handler itself has made, in order
    resp,       \* the response it returned
    thrown,     \* the exception its catch block received, NoExc if none
    erredBefore, \* an earlier invocation returned an error response
    phase,      \* the process: "loading", "connecting", "serving", "exited"
    apiKey,     \* is LINEAR_API_KEY set in the environment
    connected,  \* has server.connect(transport) resolved
    exitStatus, \* the status of process.exit, <<>> while the process runs
    sig,        \* the signal handlers that run: handler -> [kind, pc, cleanup]
    dir         \* the cache directory TEMP_DIR: "absent" or "present"

pureVars == <<fpIn, fpOut, fpDone, exDoc, exOut, exDone>>
mediaVars == <<files, pm>>
toolVars == <<tool, pc, args, loc, api, resp, thrown, erredBefore>>
lifeVars == <<phase, apiKey, connected, exitStatus, sig>>
procVars == <<lifeVars, dir>>

vars == <<pureVars, mediaVars, toolVars, procVars>>

\* ---------------------------------------------------------------- bounds

MaxPriority == 60   \* formatPriority is tried on -MaxPriority..MaxPriority
MaxSegs == 3        \* segments in a Markdown document
MaxCalls == 2       \* processMarkdownWithImages calls in one process lifetime
MaxRefs == 2        \* image references in the Markdown body of one call
MaxIssues == 4      \* issues the tracker returns to get_my_issues

\* ---------------------------------------------------------------- values

\* JavaScript null for a number | null value; a number n is Num(n).
null == [null |-> TRUE]
Num(n) == [num |-> n]

\* The tool handlers before the first call.
NoExc == [instanceofError |-> FALSE, message |-> "", str |-> ""]
NoResp == [isError |-> FALSE, content |-> <<>>]
NoArgs == [none |-> TRUE]
NoLoc == [none |-> TRUE]

\* The signal handlers: none has run.
MaxSignals == 2
Handlers == 1..MaxSignals
NoExit == <<>>
IdleHandler == [kind |-> "none", pc |-> "idle", cleanup |-> "none"]

\* The process after a startup that succeeded: the credential is set, the
\* transport is connected, no signal has arrived.
Serving ==
    /\ phase = "serving"
    /\ apiKey = TRUE
    /\ connected = TRUE
    /\ exitStatus = NoExit
    /\ sig = [h \in Handlers |-> IdleHandler]

ToolsIdle ==
    /\ tool = "none"
    /\ pc = "idle"
    /\ args = NoArgs
    /\ loc = NoLoc
    /\ api = <<>>
    /\ resp = NoResp
    /\ thrown = NoExc
    /\ erredBefore = FALSE

\* ---------------------------------------------------------------- formatPriority

formatPriority_shifted(priority) ==
    IF priority = null THEN "None"
    ELSE CASE priority.num = 0 -> "No priority"
           [] priority.num = 1 -> "High"
           [] priority.num = 2 -> "Urgent"
           [] priority.num = 3 -> "Medium"
           [] priority.num = 4 -> "Low"
           [] OTHER -> "None"

formatPriority(priority) ==
    IF priority = null THEN "None"
    ELSE CASE priority.num = 0 -> "No priority"
           [] priority.num = 1 -> "Urgent"
           [] priority.num = 2 -> "High"
           [] priority.num = 3 -> "Medium"
           [] priority.num = 4 -> "Low"
           [] OTHER -> "Priority " \o ToString(priority.num)

\* ---------------------------------------------------------------- extractImageUrls

\* '.' of a JavaScript regular expression without the s flag: any character
\* but a line terminator.
Dot(c) == c # "\n"

\* \((.*?)\) from position k, the "(" already consumed: the lazy group ends at
\* the first ")" unless a line terminator comes first. The position of that
\* ")" or 0.
RECURSIVE FindClose(_, _)
FindClose(s, k) ==
    IF k > Len(s) THEN 0
    ELSE IF s[k] = ")" THEN k
    ELSE IF Dot(s[k]) THEN FindClose(s, k + 1)
    ELSE 0

\* .*?\]\((.*?)\) from position j, "![" already consumed: the lazy alt text
\* grows one character at a time until "](" and the rest match.
\* <<j, k>>: "]" at j, ")" at k; <<>> when there is no match.
RECURSIVE MatchAlt(_, _)
MatchAlt(s, j) ==
    IF j > Len(s) THEN <<>>
    ELSE IF /\ s[j] = "]"
            /\ j + 1 <= Len(s)
            /\ s[j + 1] = "("
            /\ FindClose(s, j + 2) # 0
         THEN <<j, FindClose(s, j + 2)>>
    ELSE IF Dot(s[j]) THEN MatchAlt(s, j + 1)
    ELSE <<>>

\* The regular expression anchored at position i.
MatchAt(s, i) ==
    IF i + 1 <= Len(s) /\ s[i] = "!" /\ s[i + 1] = "[" THEN MatchAlt(s, i + 2)
    ELSE <<>>

\* imageRegex.exec from lastIndex on: the leftmost match, as <<j, k>>, or <<>>.
RECURSIVE Exec(_, _)
Exec(s, lastIndex) ==
    IF lastIndex > Len(s) THEN <<>>
    ELSE IF MatchAt(s, lastIndex) # <<>> THEN MatchAt(s, lastIndex)
    ELSE Exec(s, lastIndex + 1)

\* The while loop: push match[1], continue after the match.
RECURSIVE ExecLoop(_, _, _)
ExecLoop(s, lastIndex, urls) ==
    LET m == Exec(s, lastIndex) IN
    IF m = <<>> THEN urls
    ELSE ExecLoop(s, m[2] + 1, Append(urls, SubSeq(s, m[1] + 2, m[2] - 1)))

extractImageUrls(markdown) == ExecLoop(markdown, 1, <<>>)

\* ---------------------------------------------------------------- documents

\* The URLs documents are written with. A URL is a string: a sequence of
\* tokens.
UrlA == <<"https://h/a", ".png">>
UrlB == <<"https://h/b", ".jpg">>
UrlL == <<"https://h/page">>

\* The segments a document is made of: an image reference, a link that is no
\* image, a plain URL, words, a line break, and an image-like text "![a]"
\* that has no target.
ImageSeg(u) == [kind |-> "image", url |-> u]
LinkSeg(u) == [kind |-> "link", url |-> u]
PlainSeg(u) == [kind |-> "plain", url |-> u]
TextSeg == [kind |-> "text", url |-> <<>>]
BreakSeg == [kind |-> "break", url |-> <<>>]
BangSeg == [kind |-> "bang", url |-> <<>>]

Segments ==
    {ImageSeg(UrlA), ImageSeg(UrlB), LinkSeg(UrlL), PlainSeg(UrlL),
     TextSeg, BreakSeg, BangSeg}

SegText(g) ==
    CASE g.kind = "image" -> <<"!", "[", "a", "]", "(">> \o g.url \o <<")">>
      [] g.kind = "link" -> <<"[", "b", "]", "(">> \o g.url \o <<")">>
      [] g.kind = "plain" -> g.url
      [] g.kind = "text" -> <<"a", " ">>
      [] g.kind = "break" -> <<"\n">>
      [] g.kind = "bang" -> <<"!", "[", "a", "]">>

RECURSIVE DocText(_)
DocText(doc) ==
    IF doc = <<>> THEN <<>> ELSE SegText(Head(doc)) \o DocText(Tail(doc))

Docs == UNION {[1..n -> Segments] : n \in 0..MaxSegs}

\* ---------------------------------------------------------------- downloadImage

\* The URLs of the media model: two that parse, with and without an extension
\* in the path, and one that new URL() rejects.
UrlBad == <<"not a url">>
MediaUrls == {UrlA, UrlL, UrlBad}

\* Two more URLs that tickets hold: one whose path ends in .jpg and that goes
\* on with a query string, one with an upper-case extension.
UrlQ == <<"https://h/c", ".jpg", "?v=2">>
UrlJ == <<"https://h/d", ".JPG">>

Schemes == {"https://h/a", "https://h/b", "https://h/page", "https://h/c", "https://h/d"}
Extensions == {".png", ".jpg", ".JPG"}

NoPath == <<>>      \* downloadImage's null
NoTask == <<>>

\* new URL(url) throws on a string without a scheme.
UrlParses(url) == url # <<>> /\ url[1] \in Schemes

\* createHash('md5').update(url).digest('hex'): a digest of the whole string,
\* distinct for distinct strings.
urlHash(url) == <<"md5">> \o url

\* new URL(url).pathname: the URL without its query string.
pathname(url) ==
    IF url # <<>> /\ url[Len(url)] = "?v=2" THEN SubSeq(url, 1, Len(url) - 1)
    ELSE url

\* path.extname(new URL(url).pathname) || '.png'
extOf(url) ==
    LET urlPath == pathname(url) IN
    IF Len(urlPath) >= 2 /\ urlPath[Len(urlPath)] \in Extensions
    THEN urlPath[Len(urlPath)]
    ELSE ".png"

\* path.join(TEMP_DIR, `${urlHash}${ext}`)
filePath(url) == <<"linear-mcp-images">> \o urlHash(url) \o <<extOf(url)>>

Paths == {filePath(u) : u \in {v \in MediaUrls \cup {UrlQ, UrlJ} : UrlParses(v)}}

AbsentFile == [state |-> "absent", by |-> NoTask]

\* fs.access(filePath) resolves exactly when the file exists, whatever it holds.
accessOk_never(fs, path) == FALSE

accessOk_complete(fs, path) == fs[path].state = "full"

accessOk(fs, path) == fs[path].state # "absent"

\* The part of downloadImage that runs before its first await: the hash, the
\* URL parse (a throw is caught and gives null) and the call of fs.access.
\* seen is the set of resolutions of the same URL that had already returned
\* when this one started, kept for the properties below.
StartDownload_unparsed(url, seen) ==
    [url |-> url, pc |-> "access", result |-> NoPath, fetched |-> FALSE,
     seen |-> seen]

StartDownload(url, seen) ==
    IF UrlParses(url)
    THEN [url |-> url, pc |-> "access", result |-> NoPath, fetched |-> FALSE,
          seen |-> seen]
    ELSE [url |-> url, pc |-> "done", result |-> NoPath, fetched |-> FALSE,
          seen |-> seen]

\* images.push({ path: localPath, url }) when localPath is not null.
PushImage_dedup(images, localPath, url) ==
    IF localPath = NoPath \/ \E k \in 1..Len(images) : images[k].url = url
    THEN images
    ELSE Append(images, [path |-> localPath, url |-> url])

PushImage(images, localPath, url) ==
    IF localPath = NoPath THEN images
    ELSE Append(images, [path |-> localPath, url |-> url])

\* ---------------------------------------------------------------- SpecMedia

Calls == 1..MaxCalls

MediaDocs ==
    UNION {[1..n -> {ImageSeg(u) : u \in MediaUrls}] : n \in 0..MaxRefs}

IdleCall ==
    [state |-> "idle", markdown |-> <<>>, tasks |-> <<>>, images |-> <<>>,
     text |-> <<>>]

AllTasks == {t \in Calls \X (1..MaxRefs) : t[2] <= Len(pm[t[1]].tasks)}

Task(t) == pm[t[1]].tasks[t[2]]

\* The resolutions of url that have returned.
Returned(url) == {t \in AllTasks : Task(t).url = url /\ Task(t).pc = "done"}

\* A task ends: its result is kept and the mapper of processMarkdownWithImages
\* pushes the image.
Finish(c, i, localPath) ==
    pm' = [pm EXCEPT ![c].tasks[i].pc = "done",
                     ![c].tasks[i].result = localPath,
                     ![c].images = PushImage(@, localPath, pm[c].tasks[i].url)]

\* processMarkdownWithImages(markdown): an empty body returns at once; otherwise
\* every extracted URL gets its downloadImage call, all started together.
PMStart(c, markdown) ==
    LET imageUrls == extractImageUrls(markdown)
        started == [i \in 1..Len(imageUrls) |->
                       StartDownload(imageUrls[i], Returned(imageUrls[i]))]
    IN  IF markdown = <<>>
        THEN pm' = [pm EXCEPT ![c] = [IdleCall EXCEPT !.state = "returned"]]
        ELSE pm' = [pm EXCEPT ![c] = [IdleCall EXCEPT !.state = "running",
                                                      !.markdown = markdown,
                                                      !.tasks = started]]

PMCall(c, doc) ==
    /\ pm[c].state = "idle"
    /\ PMStart(c, DocText(doc))
    /\ UNCHANGED <<files, pureVars, procVars, toolVars>>

\* await fs.access(filePath): a hit returns the path, a miss goes on to fetch.
Access(c, i) ==
    /\ pm[c].state = "running"
    /\ i \in 1..Len(pm[c].tasks)
    /\ pm[c].tasks[i].pc = "access"
    /\ IF accessOk(files, filePath(pm[c].tasks[i].url))
       THEN Finish(c, i, filePath(pm[c].tasks[i].url))
       ELSE pm' = [pm EXCEPT ![c].tasks[i].pc = "fetch"]
    /\ UNCHANGED <<files, pureVars, procVars, toolVars>>

FetchOutcomes == {"ok", "network error", "not ok", "body error"}

\* await fetch(url), the response.ok test and await response.arrayBuffer():
\* a throw in any of them is caught and gives null.
Fetch(c, i, outcome) ==
    /\ pm[c].state = "running"
    /\ i \in 1..Len(pm[c].tasks)
    /\ pm[c].tasks[i].pc = "fetch"
    /\ IF outcome = "ok"
       THEN pm' = [pm EXCEPT ![c].tasks[i].pc = "write",
                             ![c].tasks[i].fetched = TRUE]
       ELSE pm' = [pm EXCEPT ![c].tasks[i].pc = "done",
                             ![c].tasks[i].result = NoPath,
                             ![c].tasks[i].fetched = TRUE]
    /\ UNCHANGED <<files, pureVars, procVars, toolVars>>

\* fs.writeFile(filePath, buffer) is three operations on the file: it is
\* opened for writing, which creates or truncates it; the buffer is written
\* from the start of the file; it is closed, and only then does the promise
\* resolve. Writers of one path are not serialised, so their operations
\* interleave.

\* The directory after task t has opened the file at path.
Truncated(fs, path, t) ==
    [fs EXCEPT ![path] = [state |-> "partial", by |-> t]]

\* The directory after task t has written its buffer to the file at path.
Written_unlessTaken(fs, path, t) ==
    IF fs[path].by = t
    THEN [fs EXCEPT ![path] = [state |-> "full", by |-> t]]
    ELSE fs

Written(fs, path, t) ==
    [fs EXCEPT ![path] = [state |-> "full", by |-> t]]

\* fs.writeFile, the open: a failure to open leaves the directory as it was
\* and gives null; without the cache directory the open fails.
WriteOpen(c, i, ok) ==
    /\ pm[c].state = "running"
    /\ i \in 1..Len(pm[c].tasks)
    /\ pm[c].tasks[i].pc = "write"
    /\ ok => dir = "present"
    /\ IF ok
       THEN /\ files' = Truncated(files, filePath(pm[c].tasks[i].url), <<c, i>>)
            /\ pm' = [pm EXCEPT ![c].tasks[i].pc = "writing"]
       ELSE /\ pm' = [pm EXCEPT ![c].tasks[i].pc = "done",
                                ![c].tasks[i].result = NoPath]
            /\ UNCHANGED files
    /\ UNCHANGED <<pureVars, procVars, toolVars>>

\* fs.writeFile, the write: the body is written, or the write fails, what the
\* file holds stays, and null is returned.
WriteFinish(c, i, ok) ==
    /\ pm[c].state = "running"
    /\ i \in 1..Len(pm[c].tasks)
    /\ pm[c].tasks[i].pc = "writing"
    /\ IF ok
       THEN /\ files' = Written(files, filePath(pm[c].tasks[i].url), <<c, i>>)
            /\ pm' = [pm EXCEPT ![c].tasks[i].pc = "closing"]
       ELSE /\ pm' = [pm EXCEPT ![c].tasks[i].pc = "done",
                                ![c].tasks[i].result = NoPath]
            /\ UNCHANGED files
    /\ UNCHANGED <<pureVars, procVars, toolVars>>

\* fs.writeFile, the close: the promise resolves and downloadImage returns
\* the path.
WriteClose(c, i) ==
    /\ pm[c].state = "running"
    /\ i \in 1..Len(pm[c].tasks)
    /\ pm[c].tasks[i].pc = "closing"
    /\ Finish(c, i, filePath(pm[c].tasks[i].url))
    /\ UNCHANGED <<files, pureVars, procVars, toolVars>>

\* await Promise.all(downloadPromises); return { text: markdown, images }
PMFinished(c) ==
    /\ pm[c].state = "running"
    /\ \A i \in 1..Len(pm[c].tasks) : pm[c].tasks[i].pc = "done"

PMReturn(c) ==
    /\ PMFinished(c)
    /\ pm' = [pm EXCEPT ![c].state = "returned", ![c].text = pm[c].markdown]
    /\ UNCHANGED <<files, pureVars, procVars, toolVars>>

PureIdle ==
    /\ fpIn = null
    /\ fpOut = ""
    /\ fpDone = FALSE
    /\ exDoc = <<>>
    /\ exOut = <<>>
    /\ exDone = FALSE

MediaIdle ==
    /\ files = [p \in Paths |-> AbsentFile]
    /\ pm = [c \in Calls |-> IdleCall]

InitMedia ==
    /\ PureIdle /\ MediaIdle /\ ToolsIdle /\ Serving
    /\ dir \in {"absent", "present"}

NextMedia ==
    \/ \E c \in Calls : \E doc \in MediaDocs : PMCall(c, doc)
    \/ \E c \in Calls : \E i \in 1..MaxRefs : Access(c, i)
    \/ \E c \in Calls : \E i \in 1..MaxRefs : \E o \in FetchOutcomes : Fetch(c, i, o)
    \/ \E c \in Calls : \E i \in 1..MaxRefs : \E ok \in BOOLEAN : WriteOpen(c, i, ok)
    \/ \E c \in Calls : \E i \in 1..MaxRefs : \E ok \in BOOLEAN : WriteFinish(c, i, ok)
    \/ \E c \in Calls : \E i \in 1..MaxRefs : WriteClose(c, i)
    \/ \E c \in Calls : PMReturn(c)

SpecMedia == InitMedia /\ [][NextMedia]_vars

\* ---------------------------------------------------------------- tool handlers

\* What a rejected await carries: an Error with a message, or another value.
Exceptions ==
    {[instanceofError |-> TRUE, message |-> "timeout", str |-> "Error: timeout"],
     [instanceofError |-> FALSE, message |-> "", str |-> "boom"]}


\* error instanceof Error ? error.message : String(error)
ErrorText(error) == IF error.instanceofError THEN error.message ELSE error.str

TextBlock(text) == [type |-> "text", text |-> text]

ErrorPrefix(t) ==
    CASE t = "get_ticket" -> "Error fetching ticket: "
      [] t = "get_my_issues" -> "Error fetching assigned issues: "
      [] t = "add_comment" -> "Error adding comment: "
      [] t = "create_issue" -> "Error creating issue: "
      [] t = "get_teams" -> "Error fetching teams: "
      [] t = "search_issues" -> "Error searching issues: "

\* The catch block of a handler: the response it returns for the exception.
CatchResponse_swallow(t, error) ==
    [isError |-> FALSE, content |-> <<TextBlock(<<ErrorPrefix(t)>>)>>]

CatchResponse(t, error) ==
    [isError |-> TRUE,
     content |-> <<TextBlock(<<ErrorPrefix(t), ErrorText(error)>>)>>]

ErrorBlock(text) == [isError |-> TRUE, content |-> <<TextBlock(text)>>]
TextResponse(text) == [isError |-> FALSE, content |-> <<TextBlock(text)>>]

\* if (!issue) return { isError: true, content: [{ type: "text",
\*     text: `Ticket ${ticket_id} not found` }] }, and the same for a parent.
NotFound_unnamed(what, id) == ErrorBlock(<<what, "not found">>)

NotFound(what, id) == ErrorBlock(<<what, id, " not found">>)

\* An awaited call of the handler rejects: its catch block returns.
Throw(error) ==
    /\ thrown' = error
    /\ resp' = CatchResponse(tool, error)
    /\ pc' = "returned"

\* The handler returns a response of its own.
Return(r) ==
    /\ resp' = r
    /\ pc' = "returned"
    /\ UNCHANGED thrown

\* A tool call arrives: the handler starts with fresh locals.
Begin(t, a, firstPc) ==
    /\ phase = "serving"
    /\ pc \in {"idle", "returned"}
    /\ pm' = [c \in Calls |-> IdleCall]
    /\ tool' = t
    /\ args' = a
    /\ pc' = firstPc
    /\ api' = <<>>
    /\ resp' = NoResp
    /\ thrown' = NoExc
    /\ erredBefore' = (erredBefore \/ resp.isError)

\* The tracker's data.
TicketIds == {"LAR-1", "LAR-2"}
InternalId(identifier) == <<"uuid of ", identifier>>

Team1 == [id |-> "team-1", name |-> "Engineering", key |-> "ENG"]
Team2 == [id |-> "team-2", name |-> "Ops", key |-> "OPS"]
TeamLists == {<<>>, <<Team1>>, <<Team1, Team2>>, <<Team2, Team1>>}

\* ---------------------------------------------------------------- get_teams

InvokeGetTeams ==
    /\ Begin("get_teams", NoArgs, "teams")
    /\ loc' = NoLoc
    /\ UNCHANGED <<pureVars, procVars, files>>

\* teams.map(team => `- **${team.name}** (ID: ${team.id})`)
RECURSIVE TeamLines_newestFirst(_)
TeamLines_newestFirst(teams) ==
    IF teams = <<>> THEN <<>>
    ELSE TeamLines_newestFirst(Tail(teams))
             \o <<"- **", Head(teams).name, "** (ID: ", Head(teams).id, ")">>

RECURSIVE TeamLines(_)
TeamLines(teams) ==
    IF teams = <<>> THEN <<>>
    ELSE <<"- **", Head(teams).name, "** (ID: ", Head(teams).id, ")">>
             \o TeamLines(Tail(teams))

\* await linearClient.teams(), then the empty test and the bullet list.
GetTeamsFetch ==
    /\ tool = "get_teams" /\ pc = "teams"
    /\ api' = Append(api, [op |-> "teams"])
    /\ \/ \E e \in Exceptions : Throw(e) /\ UNCHANGED loc
       \/ \E teams \in TeamLists :
              /\ loc' = [teams |-> teams]
              /\ IF Len(teams) = 0
                 THEN Return(TextResponse(<<"No teams found in this workspace.">>))
                 ELSE Return(TextResponse(
                          <<"# Available Linear Teams">> \o TeamLines(teams)))
    /\ UNCHANGED <<tool, args, erredBefore, pureVars, procVars, mediaVars>>

\* ---------------------------------------------------------------- add_comment

Comments == {"looks good"}

InvokeAddComment(ticket_id, comment) ==
    /\ Begin("add_comment", [ticket_id |-> ticket_id, comment |-> comment], "issue")
    /\ loc' = NoLoc
    /\ UNCHANGED <<pureVars, procVars, files>>

\* await linearClient.issue(ticket_id)
AddCommentIssue ==
    /\ tool = "add_comment" /\ pc = "issue"
    /\ api' = Append(api, [op |-> "issue", id |-> args.ticket_id])
    /\ \/ \E e \in Exceptions : Throw(e) /\ UNCHANGED loc
       \/ Return(NotFound("Ticket ", args.ticket_id))
          /\ UNCHANGED loc
       \/ /\ loc' = [issueId |-> InternalId(args.ticket_id)]
          /\ pc' = "createComment"
          /\ UNCHANGED <<resp, thrown>>
    /\ UNCHANGED <<tool, args, erredBefore, pureVars, procVars, mediaVars>>

\* await linearClient.createComment({ issueId, body }).then(res => res.comment)
AddCommentCreate ==
    /\ tool = "add_comment" /\ pc = "createComment"
    /\ api' = Append(api, [op |-> "createComment", issueId |-> loc.issueId,
                           body |-> args.comment])
    /\ \/ \E e \in Exceptions : Throw(e)
       \/ Return(ErrorBlock(<<"Failed to create comment">>))
       \/ Return(TextResponse(<<"Successfully added comment to ", args.ticket_id,
                                ". Comment ID: ", "comment-1">>))
    /\ UNCHANGED <<tool, args, loc, erredBefore, pureVars, procVars, mediaVars>>

\* ---------------------------------------------------------------- create_issue

NoParent == ""
ParentArgs == {NoParent, "LAR-1"}

InvokeCreateIssue(parent_issue_id) ==
    /\ Begin("create_issue",
             [team_id |-> "team-1", title |-> "New issue",
              parent_issue_id |-> parent_issue_id],
             IF parent_issue_id # NoParent THEN "parent" ELSE "createIssue")
    /\ loc' = NoLoc
    /\ UNCHANGED <<pureVars, procVars, files>>

\* if (parent_issue_id): await linearClient.issue(parent_issue_id)
CreateIssueParent ==
    /\ tool = "create_issue" /\ pc = "parent"
    /\ api' = Append(api, [op |-> "issue", id |-> args.parent_issue_id])
    /\ \/ \E e \in Exceptions : Throw(e) /\ UNCHANGED loc
       \/ Return(NotFound("Parent issue ", args.parent_issue_id))
          /\ UNCHANGED loc
       \/ /\ loc' = [parentId |-> InternalId(args.parent_issue_id)]
          /\ pc' = "createIssue"
          /\ UNCHANGED <<resp, thrown>>
    /\ UNCHANGED <<tool, args, erredBefore, pureVars, procVars, mediaVars>>

\* createParams, with createParams.parentId = parentIssue.id after the lookup.
CreateParams_identifier ==
    IF args.parent_issue_id # NoParent
    THEN [teamId |-> args.team_id, title |-> args.title,
          parentId |-> <<args.parent_issue_id>>]
    ELSE [teamId |-> args.team_id, title |-> args.title, parentId |-> <<>>]

CreateParams ==
    IF args.parent_issue_id # NoParent
    THEN [teamId |-> args.team_id, title |-> args.title, parentId |-> loc.parentId]
    ELSE [teamId |-> args.team_id, title |-> args.title, parentId |-> <<>>]

\* await linearClient.createIssue(createParams), the success test, and
\* await createResult.issue
CreateIssueCreate ==
    /\ tool = "create_issue" /\ pc = "createIssue"
    /\ api' = Append(api, [op |-> "createIssue", params |-> CreateParams])
    /\ \/ \E e \in Exceptions : Throw(e)
       \/ Return(ErrorBlock(<<"Failed to create issue">>))
       \/ pc' = "details" /\ UNCHANGED <<resp, thrown>>
    /\ UNCHANGED <<tool, args, loc, erredBefore, pureVars, procVars, mediaVars>>

Present == {TRUE, FALSE}    \* a relation resolves to an entity or to nothing

\* await Promise.all([issue.state, issue.team, issue.assignee, issue.parent])
\* and the formatted summary.
CreateIssueDetails ==
    /\ tool = "create_issue" /\ pc = "details"
    /\ api' = Append(api, [op |-> "relations"])
    /\ \/ \E e \in Exceptions : Throw(e)
       \/ \E st \in Present, tm \in Present, asg \in Present :
              Return(TextResponse(
                  <<"# Issue Created: ", "LAR-9", " - ", args.title,
                    "Status: ", IF st THEN "Todo" ELSE "Unknown",
                    "Team: ", IF tm THEN Team1.name ELSE "Unknown",
                    "Priority: ", formatPriority(Num(0)),
                    "Assignee: ", IF asg THEN "Ada" ELSE "Unassigned",
                    "## Description", "No description provided.">>))
    /\ UNCHANGED <<tool, args, loc, erredBefore, pureVars, procVars, mediaVars>>

\* ---------------------------------------------------------------- get_ticket

\* The Markdown descriptions of the tickets; the empty one is a ticket without
\* a description.
TicketDocs ==
    {<<>>, <<TextSeg>>, <<ImageSeg(UrlA)>>,
     <<ImageSeg(UrlA), TextSeg, ImageSeg(UrlBad)>>}

\* Descriptions whose one image has a URL that does not end with the
\* extension of its path.
MimeDocs == {<<ImageSeg(UrlA)>>, <<ImageSeg(UrlQ)>>, <<ImageSeg(UrlJ)>>}

\* The comments of a ticket as the tracker delivers them, newest first.
MaxComments == 2
Comment1 == [body |-> "first comment", createdAt |-> 1]
Comment2 == [body |-> "second comment", createdAt |-> 2]
CommentLists == {<<>>, <<Comment1>>, <<Comment2, Comment1>>}

\* String.prototype.toLowerCase on the tokens URLs end with.
ToLowerCase(tok) ==
    CASE tok = ".JPG" -> ".jpg"
      [] tok = ".JPEG" -> ".jpeg"
      [] tok = ".PNG" -> ".png"
      [] OTHER -> tok

\* image.url.toLowerCase().endsWith(".jpg") || ...endsWith(".jpeg")
mimeType_ofCachedFile(url) ==
    IF ToLowerCase(extOf(url)) \in {".jpg", ".jpeg"}
    THEN "image/jpeg"
    ELSE "image/png"

mimeType(url) ==
    IF url # <<>> /\ ToLowerCase(url[Len(url)]) \in {".jpg", ".jpeg"}
    THEN "image/jpeg"
    ELSE "image/png"

\* comments.reverse()
Reverse_kept(seq) == seq

RECURSIVE Reverse(_)
Reverse(seq) ==
    IF seq = <<>> THEN <<>> ELSE Append(Reverse(Tail(seq)), Head(seq))

\* The author lookup of a comment that has not resolved yet.
PendingAuthor == ""

\* userName: user?.name || "Unknown"
UserName(found) == IF found THEN "Ada" ELSE "Unknown"

RECURSIVE CommentLines(_, _)
CommentLines(comments, authors) ==
    IF comments = <<>> THEN <<>>
    ELSE <<"### ", Head(authors), Head(comments).body>>
             \o CommentLines(Tail(comments), Tail(authors))

\* The template literal of formattedTicket.
formattedTicket(issue, description, rel, comments, authors) ==
    <<"# ", issue.identifier, ": ", issue.title,
      "State: ", IF rel.state THEN "Todo" ELSE "Unknown",
      "Priority: ", formatPriority(issue.priority),
      "Assignee: ", IF rel.assignee THEN "Ada" ELSE "Unassigned",
      "Team: ", IF rel.team THEN Team1.name ELSE "None",
      "## Description">>
    \o (IF description = <<>> THEN <<"No description provided.">> ELSE description)
    \o <<"## Comments">>
    \o (IF Len(comments) > 0 THEN CommentLines(comments, authors)
        ELSE <<"No comments on this ticket.">>)

InvokeGetTicket(ticket_id) ==
    /\ Begin("get_ticket", [ticket_id |-> ticket_id], "mkdir")
    /\ loc' = NoLoc
    /\ UNCHANGED <<pureVars, procVars, files>>

\* await ensureTempDir(): fs.mkdir(TEMP_DIR, { recursive: true }); a failure is
\* logged and the handler goes on.
GetTicketEnsureTempDir_raises(ok) ==
    /\ tool = "get_ticket" /\ pc = "mkdir"
    /\ loc' = [mkdirOk |-> ok]
    /\ dir' = IF ok THEN "present" ELSE dir
    /\ IF ok THEN pc' = "issue" /\ UNCHANGED <<resp, thrown>>
       ELSE Throw([instanceofError |-> TRUE, message |-> "EACCES",
                   str |-> "Error: EACCES"])
    /\ UNCHANGED <<tool, args, api, erredBefore, pureVars, lifeVars, mediaVars>>

GetTicketEnsureTempDir(ok) ==
    /\ tool = "get_ticket" /\ pc = "mkdir"
    /\ loc' = [mkdirOk |-> ok]
    /\ dir' = IF ok THEN "present" ELSE dir
    /\ pc' = "issue"
    /\ UNCHANGED <<tool, args, api, resp, thrown, erredBefore, pureVars, lifeVars, mediaVars>>

\* await linearClient.issue(ticket_id) and the not-found test.
GetTicketIssue(doc) ==
    /\ tool = "get_ticket" /\ pc = "issue"
    /\ api' = Append(api, [op |-> "issue", id |-> args.ticket_id])
    /\ \/ \E e \in Exceptions : Throw(e) /\ UNCHANGED loc
       \/ Return(NotFound("Ticket ", args.ticket_id))
          /\ UNCHANGED loc
       \/     /\ loc' = [mkdirOk |-> loc.mkdirOk,
                         issue |-> [identifier |-> args.ticket_id,
                                    title |-> "A ticket",
                                    description |-> DocText(doc),
                                    priority |-> Num(2)]]
              /\ pc' = "comments"
              /\ UNCHANGED <<resp, thrown>>
    /\ UNCHANGED <<tool, args, erredBefore, pureVars, procVars, mediaVars>>

\* await issue.comments(), then the call of
\* processMarkdownWithImages(issue.description || "") up to its first await.
GetTicketComments ==
    /\ tool = "get_ticket" /\ pc = "comments"
    /\ api' = Append(api, [op |-> "comments"])
    /\ \/ \E e \in Exceptions : Throw(e) /\ UNCHANGED <<loc, pm>>
       \/ \E nodes \in CommentLists :
              /\ loc' = [mkdirOk |-> loc.mkdirOk, issue |-> loc.issue,
                         comments |-> nodes]
              /\ PMStart(1, loc.issue.description)
              /\ pc' = "images"
              /\ UNCHANGED <<resp, thrown>>
    /\ UNCHANGED <<tool, args, erredBefore, pureVars, procVars, files>>

\* processMarkdownWithImages returns (an empty description has returned at
\* once); then await Promise.all([issue.assignee, issue.state, issue.team]),
\* comments.reverse(), and the start of the author lookups, one per comment.
GetTicketRelations ==
    /\ tool = "get_ticket" /\ pc = "images"
    /\ PMFinished(1) \/ pm[1].state = "returned"
    /\ pm' = [pm EXCEPT ![1].state = "returned", ![1].text = pm[1].markdown]
    /\ api' = Append(api, [op |-> "relations"])
    /\ \/ \E e \in Exceptions : Throw(e) /\ UNCHANGED loc
       \/ \E asg \in Present, st \in Present, tm \in Present :
              /\ loc' = [mkdirOk |-> loc.mkdirOk, issue |-> loc.issue,
                         delivered |-> loc.comments,
                         comments |-> Reverse(loc.comments),
                         rel |-> [assignee |-> asg, state |-> st, team |-> tm],
                         authors |-> [k \in 1..Len(loc.comments) |-> PendingAuthor],
                         resolved |-> <<>>]
              /\ pc' = "authors"
              /\ UNCHANGED <<resp, thrown>>
    /\ UNCHANGED <<tool, args, erredBefore, pureVars, procVars, files>>

\* const user = await comment.user, for the k-th comment; the lookups of the
\* comments resolve in any order, and one that rejects rejects Promise.all.
\* resolved is the order in which they have resolved.
GetTicketAuthor(k) ==
    /\ tool = "get_ticket" /\ pc = "authors"
    /\ k \in 1..Len(loc.comments)
    /\ loc.authors[k] = PendingAuthor
    /\ \/ \E e \in Exceptions : Throw(e) /\ UNCHANGED loc
       \/ \E found \in Present :
              /\ loc' = [loc EXCEPT !.authors[k] = UserName(found),
                                    !.resolved = Append(@, k)]
              /\ UNCHANGED <<pc, resp, thrown>>
    /\ UNCHANGED <<tool, args, api, erredBefore, pureVars, procVars, mediaVars>>

\* await Promise.all(comments.map(...)) resolves when every lookup has; the
\* formatted text becomes the first content block and the image loop starts.
GetTicketAuthors ==
    /\ tool = "get_ticket" /\ pc = "authors"
    /\ \A k \in 1..Len(loc.comments) : loc.authors[k] # PendingAuthor
    /\ loc' = [mkdirOk |-> loc.mkdirOk,
               delivered |-> loc.delivered,
               resolved |-> loc.resolved,
               contentBlocks |->
                   <<TextBlock(formattedTicket(loc.issue, pm[1].text,
                         loc.rel, loc.comments, loc.authors))>>,
               next |-> 1,
               readFailed |-> FALSE]
    /\ pc' = "read"
    /\ UNCHANGED <<tool, args, api, resp, thrown, erredBefore, pureVars, procVars, mediaVars>>

\* The body of the image loop for one image, on the handler's locals l: the
\* image block is pushed, or the failed read is logged and the image left out.
ReadImage_placeholder(l, image, data, readOk) ==
    IF readOk
    THEN [l EXCEPT !.contentBlocks =
                       Append(@, [type |-> "image", data |-> data,
                                  mimeType |-> mimeType(image.url)]),
                   !.next = @ + 1]
    ELSE [l EXCEPT !.contentBlocks = Append(@, TextBlock(<<"Image unavailable">>)),
                   !.next = @ + 1,
                   !.readFailed = TRUE]

ReadImage(l, image, data, readOk) ==
    IF readOk
    THEN [l EXCEPT !.contentBlocks =
                       Append(@, [type |-> "image", data |-> data,
                                  mimeType |-> mimeType(image.url)]),
                   !.next = @ + 1]
    ELSE [l EXCEPT !.next = @ + 1, !.readFailed = TRUE]

\* for (const image of images): await fs.readFile(image.path), which fails
\* when the file is not there and may fail when it is.
GetTicketReadImage(ok) ==
    /\ tool = "get_ticket" /\ pc = "read"
    /\ loc.next <= Len(pm[1].images)
    /\ LET image == pm[1].images[loc.next] IN
       loc' = ReadImage(loc, image, files[image.path],
                        ok /\ files[image.path].state # "absent")
    /\ UNCHANGED <<tool, pc, args, api, resp, thrown, erredBefore, pureVars, procVars, mediaVars>>

\* return { content: contentBlocks }
GetTicketReturn ==
    /\ tool = "get_ticket" /\ pc = "read"
    /\ loc.next > Len(pm[1].images)
    /\ Return([isError |-> FALSE, content |-> loc.contentBlocks])
    /\ UNCHANGED <<tool, args, loc, api, erredBefore, pureVars, procVars, mediaVars>>

\* ---------------------------------------------------------------- get_my_issues

StateArgs == {"active", "backlog", "completed", "canceled", "all"}

Viewer == [id |-> "user-1"]

\* A filter object is the set of its constraints: {} has none.
Constraint(field, op, values) == [field |-> field, op |-> op, values |-> values]

\* const filters = { assignee: { id: { eq: user.id } }, state: {} } and the
\* if chain on the state argument.
StateFilter_activeOnlyStarted(state) ==
    CASE state = "active" -> {Constraint("type", "in", {"started"})}
      [] state = "backlog" -> {Constraint("type", "eq", {"backlog"})}
      [] state = "completed" -> {Constraint("type", "eq", {"completed"})}
      [] state = "canceled" -> {Constraint("type", "eq", {"canceled"})}
      [] OTHER -> {Constraint("type", "eq", {"all"})}

StateFilter(state) ==
    CASE state = "active" -> {Constraint("type", "in", {"started", "unstarted"})}
      [] state = "backlog" -> {Constraint("type", "eq", {"backlog"})}
      [] state = "completed" -> {Constraint("type", "eq", {"completed"})}
      [] state = "canceled" -> {Constraint("type", "eq", {"canceled"})}
      [] OTHER -> {}

Filters(user, state) ==
    [assignee |-> {Constraint("id", "eq", {user.id})},
     state |-> StateFilter(state)]

Concurrency == 3    \* { concurrency: 3 }
PageSize == 20      \* first: 20

\* The issues the tracker holds for the viewer, in the order it returns them.
\* An issue has a parent, sub-issues, or relations that may be missing,
\* depending on its place.
IssueAt(i) ==
    [id |-> InternalId("LAR-" \o ToString(i)),
     identifier |-> "LAR-" \o ToString(i),
     title |-> "Issue " \o ToString(i),
     priority |-> Num(i % 5),
     hasParent |-> (i % 4 = 2),
     hasChildren |-> (i % 4 = 1),
     loose |-> (i % 4 = 3)]

IssueList(n) == [i \in 1..n |-> IssueAt(i)]

NoResult == [identifier |-> ""]

\* p-map starts another mapper while fewer than `concurrency` are running.
CanStart_always(running) == TRUE

CanStart(running) == running < Concurrency

\* p-map: result[index] = value
StoreResult_byCompletion(results, index, value) ==
    LET free == {k \in DOMAIN results : results[k] = NoResult}
        first == CHOOSE k \in free : \A j \in free : k <= j
    IN  [results EXCEPT ![first] = value]

StoreResult(results, index, value) == [results EXCEPT ![index] = value]

Running(mp) == {i \in DOMAIN mp : mp[i].pc \notin {"waiting", "done"}}

\* p-map's next(): the mappers are started in input order, as many as the
\* concurrency allows.
RECURSIVE StartMappers(_)
StartMappers(mp) ==
    LET waiting == {i \in DOMAIN mp : mp[i].pc = "waiting"} IN
    IF waiting = {} \/ ~CanStart(Cardinality(Running(mp))) THEN mp
    ELSE LET i == CHOOSE k \in waiting : \A j \in waiting : k <= j
         IN  StartMappers([mp EXCEPT ![i].pc = "relations"])

NewMapper ==
    [pc |-> "waiting", stateName |-> "", teamName |-> "", parentIssue |-> "",
     subIssues |-> <<>>]

SubIssue == [identifier |-> "LAR-90", title |-> "Sub-issue", priority |-> Num(7)]

\* The object the mapper returns for issue i.
IssueDetails(issue, m) ==
    [id |-> issue.id,
     identifier |-> issue.identifier,
     title |-> issue.title,
     stateName |-> m.stateName,
     teamName |-> m.teamName,
     priority |-> formatPriority(issue.priority),
     parentIssue |-> m.parentIssue,
     subIssues |-> m.subIssues]

\* The mapper of issue i returns: its result is stored and p-map starts the
\* next mapper.
MapperReturns(i, m) ==
    LET done == [loc.mp EXCEPT ![i] = [m EXCEPT !.pc = "done"]] IN
    loc' = [loc EXCEPT
               !.mp = StartMappers(done),
               !.issueDetails = StoreResult(@, i, IssueDetails(loc.issues[i], m))]

RECURSIVE SubIssueLines(_)
SubIssueLines(subIssues) ==
    IF subIssues = <<>> THEN <<>>
    ELSE <<"    - **", Head(subIssues).identifier, "**: ", Head(subIssues).title,
           "Status: ", Head(subIssues).stateName,
           "Assignee: ", Head(subIssues).assigneeName,
           "Priority: ", Head(subIssues).priority>>
             \o SubIssueLines(Tail(subIssues))

RECURSIVE IssueLines(_)
IssueLines(details) ==
    IF details = <<>> THEN <<>>
    ELSE LET issue == Head(details) IN
         <<"- **", issue.identifier, "**: ", issue.title,
           "Status: ", issue.stateName, "Team: ", issue.teamName,
           "Priority: ", issue.priority>>
         \o (IF issue.parentIssue # "" THEN <<"Parent: ", issue.parentIssue>> ELSE <<>>)
         \o (IF Len(issue.subIssues) > 0
             THEN <<"Sub-issues:">> \o SubIssueLines(issue.subIssues) ELSE <<>>)
         \o IssueLines(Tail(details))

\* The template literal of formattedIssues.
formattedIssues(state, issueDetails) ==
    <<"# Your ", state, " Linear Issues (", ToString(Len(issueDetails)), ")">>
    \o IssueLines(issueDetails)

\* if (issues.length === 0) return { content: [{ type: "text",
\*     text: `No ${state} issues found assigned to you.` }] }
NoIssues_error(state) == ErrorBlock(<<"No ", state, " issues found assigned to you.">>)

NoIssues(state) == TextResponse(<<"No ", state, " issues found assigned to you.">>)

InvokeGetMyIssues(state) ==
    /\ Begin("get_my_issues", [state |-> state], "viewer")
    /\ loc' = NoLoc
    /\ UNCHANGED <<pureVars, procVars, files>>

\* await linearClient.viewer and the test of the user.
MyIssuesViewer ==
    /\ tool = "get_my_issues" /\ pc = "viewer"
    /\ api' = Append(api, [op |-> "viewer"])
    /\ \/ \E e \in Exceptions : Throw(e) /\ UNCHANGED loc
       \/ Return(ErrorBlock(<<"Could not determine the current user">>))
          /\ UNCHANGED loc
       \/ /\ loc' = [user |-> Viewer]
          /\ pc' = "issues"
          /\ UNCHANGED <<resp, thrown>>
    /\ UNCHANGED <<tool, args, erredBefore, pureVars, procVars, mediaVars>>

\* await linearClient.issues({ filter: filters, first: 20 }), the empty test,
\* and the call of pMap, which starts the first mappers.
MyIssuesQuery ==
    /\ tool = "get_my_issues" /\ pc = "issues"
    /\ api' = Append(api, [op |-> "issues",
                           filter |-> Filters(loc.user, args.state),
                           first |-> PageSize])
    /\ \/ \E e \in Exceptions : Throw(e) /\ UNCHANGED loc
       \/ Return(NoIssues(args.state))
          /\ UNCHANGED loc
       \/ \E n \in 1..MaxIssues :
              /\ loc' = [issues |-> IssueList(n),
                         mp |-> StartMappers([i \in 1..n |-> NewMapper]),
                         issueDetails |-> [i \in 1..n |-> NoResult],
                         auxFailed |-> FALSE]
              /\ pc' = "pMap"
              /\ UNCHANGED <<resp, thrown>>
    /\ UNCHANGED <<tool, args, erredBefore, pureVars, procVars, mediaVars>>

\* A lookup of the mapper rejects: the mapper throws, pMap rejects, and the
\* handler's catch block returns. The mappers still running are not awaited
\* by anything any more.
MapperThrows(e) ==
    /\ Throw(e)
    /\ loc' = [loc EXCEPT !.auxFailed = TRUE]

\* await Promise.all([issue.state, issue.team])
MapperRelations(i) ==
    /\ tool = "get_my_issues" /\ pc = "pMap"
    /\ i \in DOMAIN loc.mp
    /\ loc.mp[i].pc = "relations"
    /\ \/ \E e \in Exceptions : MapperThrows(e)
       \/ \E st \in Present, tm \in Present :
              /\ loc.issues[i].loose \/ (st /\ tm)
              /\ LET m == [loc.mp[i] EXCEPT
                              !.stateName = IF st THEN "Todo" ELSE "Unknown",
                              !.teamName = IF tm THEN Team1.name ELSE "Unknown"]
                 IN  loc' = [loc EXCEPT !.mp[i] =
                                [m EXCEPT !.pc = IF loc.issues[i].hasParent
                                                 THEN "parent" ELSE "children"]]
              /\ UNCHANGED <<pc, resp, thrown>>
    /\ UNCHANGED <<tool, args, api, erredBefore, pureVars, procVars, mediaVars>>

\* if (issue.parent): const parent = await issue.parent
MapperParent(i) ==
    /\ tool = "get_my_issues" /\ pc = "pMap"
    /\ i \in DOMAIN loc.mp
    /\ loc.mp[i].pc = "parent"
    /\ \/ \E e \in Exceptions : MapperThrows(e)
       \/ \E found \in Present :
              /\ loc' = [loc EXCEPT
                            !.mp[i].parentIssue = IF found THEN "LAR-80" ELSE "",
                            !.mp[i].pc = "children"]
              /\ UNCHANGED <<pc, resp, thrown>>
    /\ UNCHANGED <<tool, args, api, erredBefore, pureVars, procVars, mediaVars>>

\* const childrenConnection = await issue.children(); without sub-issues the
\* mapper returns.
MapperChildren(i) ==
    /\ tool = "get_my_issues" /\ pc = "pMap"
    /\ i \in DOMAIN loc.mp
    /\ loc.mp[i].pc = "children"
    /\ \/ \E e \in Exceptions : MapperThrows(e)
       \/ /\ IF loc.issues[i].hasChildren
             THEN loc' = [loc EXCEPT !.mp[i].pc = "subIssues"]
             ELSE MapperReturns(i, loc.mp[i])
          /\ UNCHANGED <<pc, resp, thrown>>
    /\ UNCHANGED <<tool, args, api, erredBefore, pureVars, procVars, mediaVars>>

\* subIssues = await Promise.all(nodes.map(... Promise.all([subIssue.state,
\* subIssue.assignee]) ...)), then the mapper returns.
MapperSubIssues(i) ==
    /\ tool = "get_my_issues" /\ pc = "pMap"
    /\ i \in DOMAIN loc.mp
    /\ loc.mp[i].pc = "subIssues"
    /\ \/ \E e \in Exceptions : MapperThrows(e)
       \/ \E st \in Present, asg \in Present :
              /\ MapperReturns(i, [loc.mp[i] EXCEPT !.subIssues =
                     <<[identifier |-> SubIssue.identifier,
                        title |-> SubIssue.title,
                        stateName |-> IF st THEN "Todo" ELSE "Unknown",
                        assigneeName |-> IF asg THEN "Ada" ELSE "Unassigned",
                        priority |-> formatPriority(SubIssue.priority)]>>])
              /\ UNCHANGED <<pc, resp, thrown>>
    /\ UNCHANGED <<tool, args, api, erredBefore, pureVars, procVars, mediaVars>>

\* pMap resolves when every mapper has returned; the handler formats the list
\* and returns it.
MyIssuesReturn ==
    /\ tool = "get_my_issues" /\ pc = "pMap"
    /\ \A i \in DOMAIN loc.mp : loc.mp[i].pc = "done"
    /\ Return(TextResponse(formattedIssues(args.state, loc.issueDetails)))
    /\ UNCHANGED <<tool, args, loc, api, erredBefore, pureVars, procVars, mediaVars>>

\* ---------------------------------------------------------------- search_issues

\* The search filter builder. The handler's code is not part of the source
\* files at hand; its steps are those the specification's section 4.6 gives.

Absent == ""
TeamArgs == {Absent, "eng", "ZZZ"}
StatusArgs == {Absent, "todo", "Nope"}
UnassignedArgs == {Absent, "true", "false"}

DefaultLimit == 20

WorkflowStates == <<[id |-> "state-1", name |-> "Todo"],
                    [id |-> "state-2", name |-> "Done"]>>
ActiveCycleLists == {<<>>, <<[id |-> "cycle-1", name |-> "Cycle 7"]>>}

\* Lower-casing of the names the lookups compare.
LowerCase(str) ==
    CASE str = "ENG" -> "eng"
      [] str = "OPS" -> "ops"
      [] str = "ZZZ" -> "zzz"
      [] str = "Todo" -> "todo"
      [] str = "Done" -> "done"
      [] str = "Nope" -> "nope"
      [] OTHER -> str

\* Case-insensitive match of the team's short code.
TeamMatches_any(team, identifier) == TRUE

TeamMatches(team, identifier) == LowerCase(team.key) = LowerCase(identifier)

StatusMatches(state, name) == LowerCase(state.name) = LowerCase(name)

MatchingTeams(teams, identifier) ==
    {k \in 1..Len(teams) : TeamMatches(teams[k], identifier)}

MatchingStates(states, name) ==
    {k \in 1..Len(states) : StatusMatches(states[k], name)}

\* The stage after the named one, given the arguments.
StageAfter(stage, a) ==
    IF stage = "start" /\ a.team_identifier # Absent THEN "teams"
    ELSE IF stage \in {"start", "teams"} /\ a.status # Absent THEN "states"
    ELSE IF stage \in {"start", "teams", "states"} /\ a.is_current_cycle THEN "cycles"
    ELSE "search"

InvokeSearchIssues(a) ==
    /\ Begin("search_issues", a, StageAfter("start", a))
    /\ loc' = [predicate |-> {}]
    /\ UNCHANGED <<pureVars, procVars, files>>

\* teamKey: look up all teams, match the short code; no match is an error
\* that names the key.
SearchTeams ==
    /\ tool = "search_issues" /\ pc = "teams"
    /\ api' = Append(api, [op |-> "teams"])
    /\ \/ \E e \in Exceptions : Throw(e) /\ UNCHANGED loc
       \/ \E teams \in TeamLists :
              LET hits == MatchingTeams(teams, args.team_identifier) IN
              IF hits = {}
              THEN /\ Return(ErrorBlock(<<"Team ", args.team_identifier, " not found">>))
                   /\ loc' = [predicate |-> loc.predicate, teams |-> teams]
              ELSE /\ loc' = [predicate |-> loc.predicate \cup
                                 {Constraint("team", "eq",
                                      {teams[CHOOSE k \in hits : TRUE].id})},
                              teams |-> teams]
                   /\ pc' = StageAfter("teams", args)
                   /\ UNCHANGED <<resp, thrown>>
    /\ UNCHANGED <<tool, args, erredBefore, pureVars, procVars, mediaVars>>

\* statusName: look up the workflow states, match the name; no match is an
\* error that names the status.
SearchStates ==
    /\ tool = "search_issues" /\ pc = "states"
    /\ api' = Append(api, [op |-> "workflowStates"])
    /\ \/ \E e \in Exceptions : Throw(e) /\ UNCHANGED loc
       \/ LET hits == MatchingStates(WorkflowStates, args.status) IN
          IF hits = {}
          THEN /\ Return(ErrorBlock(<<"Status ", args.status, " not found">>))
               /\ UNCHANGED loc
          ELSE /\ loc' = [loc EXCEPT !.predicate = @ \cup
                             {Constraint("state", "eq",
                                  {WorkflowStates[CHOOSE k \in hits : TRUE].id})}]
               /\ pc' = StageAfter("states", args)
               /\ UNCHANGED <<resp, thrown>>
    /\ UNCHANGED <<tool, args, erredBefore, pureVars, procVars, mediaVars>>

\* The response when no cycle is active.
NoActiveCycle_error == ErrorBlock(<<"No active cycle found.">>)

NoActiveCycle == TextResponse(<<"No active cycle found.">>)

\* currentCycleOnly: look up the active cycles; none is an informational
\* response, not an error.
SearchCycles ==
    /\ tool = "search_issues" /\ pc = "cycles"
    /\ api' = Append(api, [op |-> "cycles"])
    /\ \/ \E e \in Exceptions : Throw(e) /\ UNCHANGED loc
       \/ \E cycles \in ActiveCycleLists :
              IF Len(cycles) = 0
              THEN /\ Return(NoActiveCycle)
                   /\ UNCHANGED loc
              ELSE /\ loc' = [loc EXCEPT !.predicate = @ \cup
                                 {Constraint("cycle", "eq", {cycles[1].id})}]
                   /\ pc' = "search"
                   /\ UNCHANGED <<resp, thrown>>
    /\ UNCHANGED <<tool, args, erredBefore, pureVars, procVars, mediaVars>>

\* unassigned: true is "assignee is null", false "assignee is not null", absent
\* no constraint.
AssigneeConstraint(unassigned) ==
    CASE unassigned = "true" -> {Constraint("assignee", "null", {"true"})}
      [] unassigned = "false" -> {Constraint("assignee", "null", {"false"})}
      [] OTHER -> {}

\* The issue query with the finished predicate and the page size.
SearchQuery ==
    /\ tool = "search_issues" /\ pc = "search"
    /\ api' = Append(api, [op |-> "issues",
                           filter |-> loc.predicate \cup
                                          AssigneeConstraint(args.is_unassigned),
                           first |-> DefaultLimit])
    /\ \/ \E e \in Exceptions : Throw(e)
       \/ \E n \in 0..1 :
              Return(TextResponse(<<"# Search Results (", ToString(n), ")">>))
    /\ UNCHANGED <<tool, args, loc, erredBefore, pureVars, procVars, mediaVars>>

SearchArgs ==
    [team_identifier : TeamArgs, status : StatusArgs,
     is_current_cycle : BOOLEAN, is_unassigned : UnassignedArgs]

\* ---------------------------------------------------------------- SpecTools

InitTools == PureIdle /\ MediaIdle /\ ToolsIdle /\ Serving /\ dir = "absent"

NextTools ==
    \/ InvokeGetTeams
    \/ GetTeamsFetch
    \/ \E t \in TicketIds : \E c \in Comments : InvokeAddComment(t, c)
    \/ AddCommentIssue
    \/ AddCommentCreate
    \/ \E p \in ParentArgs : InvokeCreateIssue(p)
    \/ CreateIssueParent
    \/ CreateIssueCreate
    \/ CreateIssueDetails
    \/ \E t \in TicketIds : InvokeGetTicket(t)
    \/ \E ok \in BOOLEAN : GetTicketEnsureTempDir(ok)
    \/ \E doc \in TicketDocs : GetTicketIssue(doc)
    \/ GetTicketComments
    \/ \E i \in 1..MaxRefs : Access(1, i)
    \/ \E i \in 1..MaxRefs : \E o \in FetchOutcomes : Fetch(1, i, o)
    \/ \E i \in 1..MaxRefs : \E ok \in BOOLEAN : WriteOpen(1, i, ok)
    \/ \E i \in 1..MaxRefs : \E ok \in BOOLEAN : WriteFinish(1, i, ok)
    \/ \E i \in 1..MaxRefs : WriteClose(1, i)
    \/ GetTicketRelations
    \/ \E k \in 1..MaxComments : GetTicketAuthor(k)
    \/ GetTicketAuthors
    \/ \E ok \in BOOLEAN : GetTicketReadImage(ok)
    \/ GetTicketReturn
    \/ \E st \in StateArgs : InvokeGetMyIssues(st)
    \/ MyIssuesViewer
    \/ MyIssuesQuery
    \/ \E i \in 1..MaxIssues : MapperRelations(i)
    \/ \E i \in 1..MaxIssues : MapperParent(i)
    \/ \E i \in 1..MaxIssues : MapperChildren(i)
    \/ \E i \in 1..MaxIssues : MapperSubIssues(i)
    \/ MyIssuesReturn
    \/ \E a \in SearchArgs : InvokeSearchIssues(a)
    \/ SearchTeams
    \/ SearchStates
    \/ SearchCycles
    \/ SearchQuery

SpecTools == InitTools /\ [][NextTools]_vars

\* ------------------------------------------------------------------ SpecTicket
\* get_ticket alone, on tickets whose image URLs carry a query string or an
\* upper-case extension.

NextTicket ==
    \/ \E t \in TicketIds : InvokeGetTicket(t)
    \/ \E ok \in BOOLEAN : GetTicketEnsureTempDir(ok)
    \/ \E doc \in MimeDocs : GetTicketIssue(doc)
    \/ GetTicketComments
    \/ \E i \in 1..MaxRefs : Access(1, i)
    \/ \E i \in 1..MaxRefs : \E o \in FetchOutcomes : Fetch(1, i, o)
    \/ \E i \in 1..MaxRefs : \E ok \in BOOLEAN : WriteOpen(1, i, ok)
    \/ \E i \in 1..MaxRefs : \E ok \in BOOLEAN : WriteFinish(1, i, ok)
    \/ \E i \in 1..MaxRefs : WriteClose(1, i)
    \/ GetTicketRelations
    \/ \E k \in 1..MaxComments : GetTicketAuthor(k)
    \/ GetTicketAuthors
    \/ \E ok \in BOOLEAN : GetTicketReadImage(ok)
    \/ GetTicketReturn

SpecTicket == InitTools /\ [][NextTicket]_vars

\* ---------------------------------------------------------------- SpecPriority

Priorities == {null} \cup {Num(n) : n \in (0 - MaxPriority)..MaxPriority}

InitPriority ==
    /\ fpIn \in Priorities
    /\ fpOut = ""
    /\ fpDone = FALSE
    /\ exDoc = <<>>
    /\ exOut = <<>>
    /\ exDone = FALSE
    /\ MediaIdle
    /\ ToolsIdle
    /\ Serving
    /\ dir = "absent"

CallFormatPriority ==
    /\ ~fpDone
    /\ fpOut' = formatPriority(fpIn)
    /\ fpDone' = TRUE
    /\ UNCHANGED <<fpIn, exDoc, exOut, exDone, mediaVars, toolVars, procVars>>

NextPriority == CallFormatPriority

SpecPriority == InitPriority /\ [][NextPriority]_vars

\* ---------------------------------------------------------------- SpecExtract

InitExtract ==
    /\ fpIn = null
    /\ fpOut = ""
    /\ fpDone = FALSE
    /\ exDoc \in Docs
    /\ exOut = <<>>
    /\ exDone = FALSE
    /\ MediaIdle
    /\ ToolsIdle
    /\ Serving
    /\ dir = "absent"

CallExtractImageUrls ==
    /\ ~exDone
    /\ exOut' = extractImageUrls(DocText(exDoc))
    /\ exDone' = TRUE
    /\ UNCHANGED <<fpIn, fpOut, fpDone, exDoc, mediaVars, toolVars, procVars>>

NextExtract == CallExtractImageUrls

SpecExtract == InitExtract /\ [][NextExtract]_vars

\* ---------------------------------------------------------------- the process

\* The module's top-level code, which runs without an await: the test of
\* LINEAR_API_KEY, which exits with status 1 when it is not set; then the
\* client, the server and its tools, the registration of the SIGINT and
\* SIGTERM handlers, and the call of main(), which runs up to
\* await server.connect(transport).
LoadModule_unchecked ==
    /\ phase = "loading"
    /\ phase' = "connecting"
    /\ UNCHANGED <<apiKey, connected, exitStatus, sig, dir, pureVars, mediaVars, toolVars>>

LoadModule ==
    /\ phase = "loading"
    /\ IF apiKey
       THEN phase' = "connecting" /\ UNCHANGED exitStatus
       ELSE phase' = "exited" /\ exitStatus' = <<1>>
    /\ UNCHANGED <<apiKey, connected, sig, dir, pureVars, mediaVars, toolVars>>

\* await server.connect(transport): when it resolves the server takes tool
\* calls; when it rejects, main().catch exits with status 1.
Connect(ok) ==
    /\ phase = "connecting"
    /\ IF ok
       THEN phase' = "serving" /\ connected' = TRUE /\ UNCHANGED exitStatus
       ELSE phase' = "exited" /\ exitStatus' = <<1>> /\ UNCHANGED connected
    /\ UNCHANGED <<apiKey, sig, dir, pureVars, mediaVars, toolVars>>

Signals == {"SIGINT", "SIGTERM"}

\* A signal arrives: its handler logs and calls cleanup(), which runs up to
\* await fs.access(TEMP_DIR).
Signal(h, kind) ==
    /\ phase = "serving"
    /\ sig[h].pc = "idle"
    /\ \A g \in Handlers : g < h => sig[g].pc # "idle"
    /\ sig' = [sig EXCEPT ![h] = [kind |-> kind, pc |-> "access", cleanup |-> "running"]]
    /\ UNCHANGED <<phase, apiKey, connected, exitStatus, dir, pureVars, mediaVars, toolVars>>

\* cleanup(): await fs.access(TEMP_DIR); when the directory does not exist the
\* inner catch logs that there is nothing to clean up and cleanup returns.
CleanupAccess(h) ==
    /\ phase = "serving"
    /\ sig[h].pc = "access"
    /\ IF dir = "present"
       THEN sig' = [sig EXCEPT ![h].pc = "rm"]
       ELSE sig' = [sig EXCEPT ![h].pc = "exit", ![h].cleanup = "absent"]
    /\ UNCHANGED <<phase, apiKey, connected, exitStatus, dir, pureVars, mediaVars, toolVars>>

\* cleanup(): await fs.rm(TEMP_DIR, { recursive: true }); it removes the
\* directory with all it holds, or it rejects (as it does when the directory
\* is gone by now), which the inner catch swallows; cleanup returns.
CleanupRm(h, ok) ==
    /\ phase = "serving"
    /\ sig[h].pc = "rm"
    /\ ok => dir = "present"
    /\ IF ok
       THEN /\ dir' = "absent"
            /\ files' = [p \in Paths |-> AbsentFile]
            /\ sig' = [sig EXCEPT ![h].pc = "exit", ![h].cleanup = "removed"]
       ELSE /\ sig' = [sig EXCEPT ![h].pc = "exit", ![h].cleanup = "failed"]
            /\ UNCHANGED <<dir, files>>
    /\ UNCHANGED <<phase, apiKey, connected, exitStatus, pm, pureVars, toolVars>>

\* The status the signal handler exits with, whatever cleanup() did.
SignalExitStatus_byCleanup(cleanup) == IF cleanup = "removed" THEN <<0>> ELSE <<1>>

SignalExitStatus(cleanup) == <<0>>

\* await cleanup() has resolved: process.exit(0).
SignalExit(h) ==
    /\ phase = "serving"
    /\ sig[h].pc = "exit"
    /\ phase' = "exited"
    /\ exitStatus' = SignalExitStatus(sig[h].cleanup)
    /\ sig' = [sig EXCEPT ![h].pc = "exited"]
    /\ UNCHANGED <<apiKey, connected, dir, pureVars, mediaVars, toolVars>>

\* The tool calls the process serves here: get_teams, add_comment and
\* create_issue. None of their steps runs once the process has exited.
ServeTools ==
    /\ phase = "serving"
    /\ \/ InvokeGetTeams
       \/ GetTeamsFetch
       \/ \E t \in TicketIds : \E c \in Comments : InvokeAddComment(t, c)
       \/ AddCommentIssue
       \/ AddCommentCreate
       \/ \E p \in ParentArgs : InvokeCreateIssue(p)
       \/ CreateIssueParent
       \/ CreateIssueCreate
       \/ CreateIssueDetails

\* The process starts with or without the credential; the cache directory
\* may be there from an earlier run.
InitProcess ==
    /\ PureIdle /\ MediaIdle /\ ToolsIdle
    /\ phase = "loading"
    /\ apiKey \in BOOLEAN
    /\ connected = FALSE
    /\ exitStatus = NoExit
    /\ sig = [h \in Handlers |-> IdleHandler]
    /\ dir \in {"absent", "present"}

NextProcess ==
    \/ LoadModule
    \/ \E ok \in BOOLEAN : Connect(ok)
    \/ \E h \in Handlers : \E kind \in Signals : Signal(h, kind)
    \/ \E h \in Handlers : CleanupAccess(h)
    \/ \E h \in Handlers : \E ok \in BOOLEAN : CleanupRm(h, ok)
    \/ \E h \in Handlers : SignalExit(h)
    \/ ServeTools

\* The top-level code runs to its end, and a handler whose cleanup() has
\* returned goes on to process.exit.
SpecProcess ==
    /\ InitProcess
    /\ [][NextProcess]_vars
    /\ WF_vars(LoadModule)
    /\ \A h \in Handlers : WF_vars(CleanupAccess(h))
    /\ \A h \in Handlers : WF_vars(\E ok \in BOOLEAN : CleanupRm(h, ok))
    /\ \A h \in Handlers : WF_vars(SignalExit(h))

\* ---------------------------------------------------------------- claims

\* C8: formatPriority is total: 0, 1, 2, 3, 4 give "No priority", "Urgent",
\* "High", "Medium", "Low", every other integer N gives "Priority N", and null
\* gives "None".
C8_PriorityLabels ==
    fpDone =>
        /\ fpIn = null => fpOut = "None"
        /\ fpIn = Num(0) => fpOut = "No priority"
        /\ fpIn = Num(1) => fpOut = "Urgent"
        /\ fpIn = Num(2) => fpOut = "High"
        /\ fpIn = Num(3) => fpOut = "Medium"
        /\ fpIn = Num(4) => fpOut = "Low"
        /\ fpIn = Num(5) => fpOut = "Priority 5"
        /\ fpIn = Num(-1) => fpOut = "Priority -1"
        /\ fpIn = Num(17) => fpOut = "Priority 17"
        /\ (fpIn # null /\ fpIn.num \notin 0..4) =>
               fpOut = "Priority " \o ToString(fpIn.num)

C8_Witness ==
    \/ fpDone /\ fpIn = Num(17) /\ fpOut = "Priority 17"
    \/ fpDone /\ fpIn = Num(-1) /\ fpOut = "Priority -1"

\* C9: extractImageUrls returns exactly the URLs of the document's image
\* references, in document order; links that are no images, plain URLs and
\* other text contribute nothing.
RECURSIVE ImageUrlsOf(_)
ImageUrlsOf(doc) ==
    IF doc = <<>> THEN <<>>
    ELSE IF Head(doc).kind = "image" THEN <<Head(doc).url>> \o ImageUrlsOf(Tail(doc))
    ELSE ImageUrlsOf(Tail(doc))

C9_ExactImageUrls == exDone => exOut = ImageUrlsOf(exDoc)

Succeeded(c, url) ==
    {i \in 1..Len(pm[c].tasks) :
        pm[c].tasks[i].url = url /\ pm[c].tasks[i].result # NoPath}

EntriesFor(c, url) ==
    {k \in 1..Len(pm[c].images) : pm[c].images[k].url = url}

C2_ImagesAreSuccesses ==
    \A c \in Calls :
        (pm[c].state = "returned" /\ pm[c].markdown # <<>>) =>
            /\ pm[c].text = pm[c].markdown
            /\ Len(pm[c].tasks) = Len(extractImageUrls(pm[c].markdown))
            /\ \A i \in 1..Len(pm[c].tasks) :
                   pm[c].tasks[i].url = extractImageUrls(pm[c].markdown)[i]
            /\ \A u \in MediaUrls :
                   Cardinality(EntriesFor(c, u)) = Cardinality(Succeeded(c, u))
            /\ \A k \in 1..Len(pm[c].images) :
                   /\ pm[c].images[k].url \in MediaUrls
                   /\ pm[c].images[k].path = filePath(pm[c].images[k].url)

C2_Witness ==
    \E c \in Calls :
        /\ pm[c].state = "returned"
        /\ Len(pm[c].tasks) = 2
        /\ pm[c].tasks[1].fetched
        /\ pm[c].tasks[1].result = NoPath
        /\ pm[c].tasks[2].result # NoPath
        /\ Len(pm[c].images) = 1
        /\ pm[c].text = pm[c].markdown

\* The tokens of the first content block of the response.
ResponseText == IF Len(resp.content) > 0 THEN resp.content[1].text ELSE <<>>

Tokens(text) == {text[k] : k \in 1..Len(text)}

InFanOut ==
    /\ tool = "get_my_issues"
    /\ pc \in {"pMap", "returned"}
    /\ "mp" \in DOMAIN loc

\* The identifiers of the issues a formatted list names, in its order: the
\* tokens that follow "- **".
RECURSIVE ListedIdentifiers(_)
ListedIdentifiers(text) ==
    IF Len(text) < 2 THEN <<>>
    ELSE IF Head(text) = "- **"
         THEN <<text[2]>> \o ListedIdentifiers(Tail(Tail(text)))
         ELSE ListedIdentifiers(Tail(text))

\* C3: in get_my_issues, the i-th result of the fan-out is the result for the
\* i-th fetched issue, whatever order the mappers finish in, and the returned
\* list names the N issues in the order they were fetched.
C3_OrderPreserved ==
    InFanOut =>
        /\ DOMAIN loc.issueDetails = DOMAIN loc.issues
        /\ \A i \in DOMAIN loc.issueDetails :
               loc.issueDetails[i] # NoResult =>
                   loc.issueDetails[i].identifier = loc.issues[i].identifier
        /\ (pc = "returned" /\ ~resp.isError) =>
               ListedIdentifiers(ResponseText) =
                   [i \in 1..Len(loc.issues) |-> "LAR-" \o ToString(i)]

C3_Witness ==
    /\ InFanOut
    /\ Len(loc.issues) >= 3
    /\ loc.mp[2].pc \notin {"waiting", "done"}
    /\ loc.mp[3].pc = "done"
    /\ loc.issueDetails[3].identifier = "LAR-3"
    /\ loc.issueDetails[2] = NoResult

\* C4: during the fan-out of get_my_issues at most 3 issues are being enriched
\* at any moment, and the 4th issue's enrichment has started only if one of
\* the earlier ones has finished.
C4_AtMostThree ==
    (InFanOut /\ pc = "pMap") =>
        /\ Cardinality(Running(loc.mp)) <= 3
        /\ \A i \in DOMAIN loc.mp :
               (i > 3 /\ loc.mp[i].pc # "waiting") =>
                   \E j \in 1..(i - 1) : loc.mp[j].pc = "done"

C4_Witness ==
    /\ InFanOut /\ pc = "pMap"
    /\ Len(loc.issues) = 4
    /\ Cardinality(Running(loc.mp)) = 3
    /\ loc.mp[4].pc = "relations"

\* C5: a failure of one issue's auxiliary lookup in the fan-out does not make
\* the response an error.
C5_AuxFailureDegrades ==
    (InFanOut /\ pc = "returned" /\ loc.auxFailed) => ~resp.isError

FiveTools == {"get_ticket", "get_my_issues", "add_comment", "create_issue", "get_teams"}

ReadFailed == "readFailed" \in DOMAIN loc /\ loc.readFailed

IsErrorResponseFor(error) ==
    /\ resp.isError
    /\ Len(resp.content) = 1
    /\ resp.content[1].type = "text"
    /\ Len(resp.content[1].text) = 2
    /\ resp.content[1].text[2] =
           (IF error.instanceofError THEN error.message ELSE error.str)

\* C6 as stated: in each of the five handlers, whenever an awaited call of
\* the handler has raised, the response is an error response.
C6_EveryRaiseIsError ==
    (tool \in FiveTools /\ pc = "returned" /\ (thrown # NoExc \/ ReadFailed)) =>
        resp.isError

\* C6 amended: in each of the five handlers, an exception of an awaited
\* tracker call, the top-level fetch and the lookups of the fan-out included,
\* is returned as an error response with one text block that carries the
\* exception's message; a failed read of a cached image in get_ticket is
\* caught where it occurs and does not make the response an error.
C6_CaughtAtBoundary ==
    (tool \in FiveTools /\ pc = "returned") =>
        /\ thrown # NoExc => IsErrorResponseFor(thrown)
        /\ (thrown = NoExc /\ ReadFailed) => ~resp.isError

C6_Witness ==
    /\ tool \in FiveTools
    /\ pc = "returned"
    /\ erredBefore
    /\ thrown # NoExc
    /\ IsErrorResponseFor(thrown)

\* C7: the issue query of get_my_issues constrains the assignee to the
\* viewer; with "active" the state type to {started, unstarted}; with
\* "backlog", "completed" or "canceled" to that one value; with "all" the
\* state filter holds no constraint.
C7_StateFilter ==
    tool = "get_my_issues" =>
        \A k \in 1..Len(api) :
            api[k].op = "issues" =>
                /\ api[k].filter.assignee = {Constraint("id", "eq", {"user-1"})}
                /\ args.state = "active" =>
                       api[k].filter.state =
                           {Constraint("type", "in", {"started", "unstarted"})}
                /\ args.state \in {"backlog", "completed", "canceled"} =>
                       api[k].filter.state =
                           {Constraint("type", "eq", {args.state})}
                /\ args.state = "all" => api[k].filter.state = {}

C7_Witness ==
    /\ tool = "get_my_issues"
    /\ args.state = "all"
    /\ Len(api) = 2
    /\ api[2].op = "issues"
    /\ api[2].filter.state = {}
    /\ api[2].filter.assignee # {}

\* C10: search_issues with a team_identifier that matches no team returns an
\* error block that names the identifier, and makes no issue query.
C10_UnknownTeam ==
    (/\ tool = "search_issues"
     /\ pc = "returned"
     /\ args.team_identifier = "ZZZ"
     /\ "teams" \in DOMAIN loc) =>
        /\ resp.isError
        /\ "ZZZ" \in Tokens(ResponseText)
        /\ \A k \in 1..Len(api) : api[k].op # "issues"

C10_Witness ==
    /\ tool = "search_issues"
    /\ pc = "returned"
    /\ args.team_identifier = "ZZZ"
    /\ "teams" \in DOMAIN loc
    /\ Len(loc.teams) = 2
    /\ resp.isError
    /\ "ZZZ" \in Tokens(ResponseText)

\* The last tracker call of the running handler.
LastCall == IF Len(api) > 0 THEN api[Len(api)] ELSE [op |-> "none"]

\* C11: search_issues with is_current_cycle true, when the lookup of the
\* active cycles succeeds and gives none, returns a response that is no error
\* and holds one informational text block; no issue query is made.
C11_NoActiveCycle ==
    (/\ tool = "search_issues"
     /\ pc = "returned"
     /\ LastCall.op = "cycles"
     /\ thrown = NoExc) =>
        /\ args.is_current_cycle
        /\ ~resp.isError
        /\ Len(resp.content) = 1
        /\ resp.content[1].type = "text"
        /\ resp.content[1].text # <<>>
        /\ \A k \in 1..Len(api) : api[k].op # "issues"

C11_Witness ==
    /\ tool = "search_issues"
    /\ pc = "returned"
    /\ args.is_current_cycle
    /\ args.team_identifier = "eng"
    /\ LastCall.op = "cycles"
    /\ thrown = NoExc
    /\ ~resp.isError
    /\ resp.content[1].type = "text"

\* C12: when the issue lookup yields no issue, get_ticket and add_comment
\* return an error block whose text names the requested ticket_id, and
\* create_issue with a parent_issue_id returns an error block whose text names
\* the parent identifier.
C12_NotFoundNamesId ==
    (/\ tool \in {"get_ticket", "add_comment", "create_issue"}
     /\ pc = "returned"
     /\ LastCall.op = "issue"
     /\ thrown = NoExc) =>
        /\ resp.isError
        /\ Len(resp.content) = 1
        /\ resp.content[1].type = "text"
        /\ LastCall.id \in Tokens(ResponseText)
        /\ tool \in {"get_ticket", "add_comment"} => LastCall.id = args.ticket_id
        /\ tool = "create_issue" =>
               /\ LastCall.id = args.parent_issue_id
               /\ args.parent_issue_id # NoParent
        /\ Len(api) = 1

C12_Witness ==
    /\ tool = "create_issue"
    /\ pc = "returned"
    /\ LastCall.op = "issue"
    /\ thrown = NoExc
    /\ erredBefore
    /\ resp.isError
    /\ ResponseText = <<"Parent issue ", "LAR-1", " not found">>

\* The cache file of a resolution.
FileOf(t) == files[filePath(Task(t).url)]

\* C13: when the cache file of a URL exists at the existence check,
\* downloadImage returns its path, makes no network call and leaves every
\* file as it is.
C13_CacheHit ==
    [][\A t \in AllTasks :
           (/\ Task(t).pc = "access"
            /\ FileOf(t).state # "absent"
            /\ Task(t)'.pc # "access") =>
               /\ Task(t)'.pc = "done"
               /\ Task(t)'.result = filePath(Task(t).url)
               /\ ~Task(t)'.fetched
               /\ files' = files]_vars

C13_Witness ==
    \E t \in AllTasks :
        /\ Task(t).pc = "done"
        /\ ~Task(t).fetched
        /\ Task(t).result = filePath(Task(t).url)
        /\ FileOf(t).state = "full"
        /\ FileOf(t).by # t

\* C14: downloadImage always returns: for a URL that does not parse it
\* returns null without a fetch; a fetch that fails (network failure, non-2xx
\* response, unreadable body) and a write that fails give null; a write that
\* succeeds has put the body in the file at the target path, and the path is
\* returned after that.
C14_NullOrPath ==
    /\ [](\A t \in AllTasks :
              /\ ~UrlParses(Task(t).url) =>
                     /\ Task(t).pc = "done"
                     /\ Task(t).result = NoPath
                     /\ ~Task(t).fetched
              /\ Task(t).pc = "done" =>
                     Task(t).result \in {NoPath, filePath(Task(t).url)}
              /\ Task(t).pc \in {"write", "writing", "closing"} => Task(t).fetched
              /\ Task(t).pc = "closing" => FileOf(t).state # "absent")
    /\ [][\A t \in AllTasks :
              /\ (Task(t).pc \in {"fetch", "write", "writing"} /\ Task(t)'.pc = "done") =>
                     Task(t)'.result = NoPath
              /\ (Task(t).pc = "writing" /\ Task(t)'.pc = "closing") =>
                     files'[filePath(Task(t).url)] = [state |-> "full", by |-> t]
              /\ (Task(t).pc = "closing" /\ Task(t)'.pc # "closing") =>
                     /\ Task(t)'.pc = "done"
                     /\ Task(t)'.result = filePath(Task(t).url)]_vars

C14_Witness ==
    \E t1 \in AllTasks, t2 \in AllTasks, t3 \in AllTasks :
        /\ ~UrlParses(Task(t1).url) /\ Task(t1).result = NoPath
        /\ Task(t2).pc = "done" /\ Task(t2).fetched /\ Task(t2).result = NoPath
        /\ Task(t3).pc = "done" /\ Task(t3).fetched
        /\ Task(t3).result = filePath(Task(t3).url)
        /\ FileOf(t3) = [state |-> "full", by |-> t3]

\* Two resolutions of one URL that ran concurrently: neither had returned when
\* the other started.
Concurrent(t1, t2) ==
    /\ t1 # t2
    /\ Task(t1).url = Task(t2).url
    /\ t1 \notin Task(t2).seen
    /\ t2 \notin Task(t1).seen

\* A resolution that has returned the path after a download of its own.
Downloaded(t) ==
    Task(t).pc = "done" /\ Task(t).fetched /\ Task(t).result # NoPath

\* C20 as stated: when the second of two concurrent downloads of one URL
\* finishes, both have returned the same path and the file holds the body
\* written by the one that has just finished.
C20_LastFinisherWins ==
    [][\A t \in AllTasks :
           (/\ Task(t).pc = "closing"
            /\ Task(t)'.pc = "done"
            /\ \E t1 \in AllTasks : Concurrent(t1, t) /\ Downloaded(t1)) =>
               /\ \A t1 \in AllTasks :
                      (Concurrent(t1, t) /\ Downloaded(t1)) =>
                          Task(t1).result = Task(t)'.result
               /\ files'[filePath(Task(t).url)] = [state |-> "full", by |-> t]]_vars

\* C20 amended: two concurrent resolutions of one URL may both download; each
\* successful one returns the same path; every write of the body replaces what
\* the file held, so the file holds the body of the write that came last,
\* and the finish of a resolution changes no file.
C20_LastWriteWins ==
    /\ [](\A t1 \in AllTasks, t2 \in AllTasks :
              (Concurrent(t1, t2) /\ Downloaded(t1) /\ Downloaded(t2)) =>
                  /\ Task(t1).result = Task(t2).result
                  /\ FileOf(t1).state # "absent")
    /\ [][\A t \in AllTasks :
              /\ (Task(t).pc = "writing" /\ Task(t)'.pc = "closing") =>
                     files'[filePath(Task(t).url)] = [state |-> "full", by |-> t]
              /\ (Task(t).pc = "closing" /\ Task(t)'.pc = "done") =>
                     files' = files]_vars

C20_Witness ==
    \E t1 \in AllTasks, t2 \in AllTasks :
        /\ Concurrent(t1, t2)
        /\ Downloaded(t1)
        /\ Downloaded(t2)
        /\ t1[1] # t2[1]
        /\ FileOf(t1).state = "full"

\* The bodies of the comments a formatted ticket lists, in its order: a
\* comment is "### ", its author, its body.
RECURSIVE ListedComments(_)
ListedComments(text) ==
    IF Len(text) < 3 THEN <<>>
    ELSE IF Head(text) = "### "
         THEN <<text[3]>> \o ListedComments(Tail(Tail(Tail(text))))
         ELSE ListedComments(Tail(text))

GetTicketDone ==
    /\ tool = "get_ticket"
    /\ pc = "returned"
    /\ ~resp.isError
    /\ "delivered" \in DOMAIN loc

\* C16: the get_ticket output lists the comments in exactly the reverse of
\* the order the tracker delivered them, whatever order the author lookups
\* of the comments completed in.
C16_CommentsReversed ==
    /\ GetTicketDone =>
           LET listed == ListedComments(ResponseText)
               n == Len(loc.delivered)
           IN  /\ Len(listed) = n
               /\ \A k \in 1..n : listed[k] = loc.delivered[n + 1 - k].body
    /\ (tool = "get_ticket" /\ pc = "authors") =>
           /\ Len(loc.comments) = Len(loc.delivered)
           /\ \A k \in 1..Len(loc.comments) :
                  loc.comments[k] = loc.delivered[Len(loc.delivered) + 1 - k]

\* The second comment's author lookup has completed before the first one's.
C16_Witness ==
    /\ GetTicketDone
    /\ loc.delivered = <<Comment2, Comment1>>
    /\ loc.resolved = <<2, 1>>
    /\ ListedComments(ResponseText) = <<"first comment", "second comment">>

\* The values a formatted text gives for a label: the tokens that follow it.
ValuesOf(text, label) ==
    {text[k + 1] : k \in {j \in 1..(Len(text) - 1) : text[j] = label}}

\* C15: in the formatted output of get_ticket, get_my_issues (sub-issues
\* included) and create_issue, a state is a state's name or "Unknown", an
\* assignee a user's name or "Unassigned", a team a team's name or "None"; a
\* ticket without description shows "No description provided." and one without
\* comments the no-comments sentence.
C15_Placeholders ==
    (/\ tool \in {"get_ticket", "get_my_issues", "create_issue"}
     /\ pc = "returned"
     /\ ~resp.isError) =>
        /\ ValuesOf(ResponseText, "State: ") \subseteq {"Todo", "Unknown"}
        /\ ValuesOf(ResponseText, "Status: ") \subseteq {"Todo", "Unknown"}
        /\ ValuesOf(ResponseText, "Assignee: ") \subseteq {"Ada", "Unassigned"}
        /\ ValuesOf(ResponseText, "Team: ") \subseteq {Team1.name, Team2.name, "None"}
        /\ (tool = "get_ticket" /\ pm[1].text = <<>>) =>
               ValuesOf(ResponseText, "## Description") = {"No description provided."}
        /\ (tool = "get_ticket" /\ "delivered" \in DOMAIN loc /\ loc.delivered = <<>>) =>
               ValuesOf(ResponseText, "## Comments") = {"No comments on this ticket."}

\* C17: a SIGINT or SIGTERM handler looks for the cache directory and, when it
\* is there, removes it with all it holds; the handler exits the process only
\* after its cleanup has returned, and always with status 0: also when the
\* directory was absent and when the removal failed. Once a signal has
\* arrived the process does exit.
C17_SignalCleanup ==
    /\ [](\A h \in Handlers :
              /\ sig[h].pc = "exited" =>
                     /\ phase = "exited"
                     /\ exitStatus = <<0>>
                     /\ sig[h].cleanup \in {"removed", "absent", "failed"}
              /\ sig[h].pc \in {"access", "rm"} => sig[h].cleanup = "running")
    /\ []((phase = "exited" /\ connected) => \E h \in Handlers : sig[h].pc = "exited")
    /\ [][\A h \in Handlers :
              /\ (sig[h].pc = "access" /\ dir = "present" /\ sig[h]' # sig[h]) =>
                     sig[h]'.pc = "rm"
              /\ (sig[h].pc = "access" /\ dir = "absent" /\ sig[h]' # sig[h]) =>
                     (sig[h]'.cleanup = "absent" /\ dir' = "absent")
              /\ (sig[h].pc = "rm" /\ sig[h]'.cleanup = "removed") =>
                     /\ dir = "present"
                     /\ dir' = "absent"
                     /\ \A p \in Paths : files'[p].state = "absent"
              /\ (phase = "serving" /\ phase' = "exited" /\ sig[h]'.pc = "exited") =>
                     sig[h].pc = "exit"]_vars
    /\ \A h \in Handlers : (sig[h].pc = "access") ~> (phase = "exited")

C17_Witness ==
    /\ phase = "exited"
    /\ exitStatus = <<0>>
    /\ tool = "get_teams"
    /\ sig[1].kind = "SIGTERM"
    /\ sig[1].cleanup = "failed"
    /\ sig[2].kind = "SIGINT"
    /\ sig[2].cleanup = "removed"
    /\ sig[2].pc = "exited"
    /\ dir = "absent"

\* C18: without LINEAR_API_KEY the process exits with status 1 before the
\* transport is connected: it never connects and never serves a tool call.
C18_NoKeyNoService ==
    /\ [](~apiKey =>
              /\ ~connected
              /\ phase \in {"loading", "exited"}
              /\ tool = "none"
              /\ pc = "idle"
              /\ api = <<>>
              /\ phase = "exited" => exitStatus = <<1>>)
    /\ (~apiKey) ~> (phase = "exited" /\ exitStatus = <<1>>)

C18_Witness ==
    /\ ~apiKey
    /\ phase = "exited"
    /\ exitStatus = <<1>>
    /\ ~connected
    /\ tool = "none"

\* The tokens that follow a label in a text, in order.
RECURSIVE Following(_, _)
Following(text, label) ==
    IF Len(text) < 2 THEN <<>>
    ELSE IF Head(text) = label
         THEN <<text[2]>> \o Following(Tail(Tail(text)), label)
         ELSE Following(Tail(text), label)

\* C19: get_teams, when the listing succeeds, returns one text block that is
\* no error: the no-teams sentence when the listing is empty, otherwise one
\* bullet per team, in the order of the listing, with the team's name and id.
C19_TeamBullets ==
    (tool = "get_teams" /\ pc = "returned" /\ thrown = NoExc) =>
        /\ ~resp.isError
        /\ Len(resp.content) = 1
        /\ resp.content[1].type = "text"
        /\ loc.teams = <<>> =>
               ResponseText = <<"No teams found in this workspace.">>
        /\ loc.teams # <<>> =>
               /\ Following(ResponseText, "- **") =
                      [k \in 1..Len(loc.teams) |-> loc.teams[k].name]
               /\ Following(ResponseText, "** (ID: ") =
                      [k \in 1..Len(loc.teams) |-> loc.teams[k].id]

C19_Witness ==
    /\ tool = "get_teams"
    /\ pc = "returned"
    /\ thrown = NoExc
    /\ loc.teams = <<Team2, Team1>>
    /\ Following(ResponseText, "- **") = <<"Ops", "Engineering">>
    /\ Following(ResponseText, "** (ID: ") = <<"team-2", "team-1">>

\* C21: whenever downloadImage returns a path through the cache-hit branch,
\* the file at that path holds the complete body of a successful fetch: also
\* after a download whose write failed, and while another download is still
\* writing the file.
C21_HitIsComplete ==
    [][\A t \in AllTasks :
           (/\ Task(t).pc = "access"
            /\ Task(t)'.pc = "done"
            /\ Task(t)'.result # NoPath) =>
               FileOf(t).state = "full"]_vars

\* The positions of the calls of an operation in the handler's tracker calls.
CallsOf(op) == {k \in 1..Len(api) : api[k].op = op}

\* C22: add_comment calls createComment only after the ticket lookup gave an
\* issue, and with that issue's id; create_issue with a parent_issue_id calls
\* createIssue only after the parent lookup gave an issue, and with the
\* parent's internal id as parentId, not the identifier it was given; a lookup
\* that gives no issue or throws is the handler's last tracker call.
C22_MutationAfterLookup ==
    /\ tool = "add_comment" =>
           /\ \A k \in CallsOf("createComment") :
                  /\ k = 2
                  /\ api[1] = [op |-> "issue", id |-> args.ticket_id]
                  /\ "issueId" \in DOMAIN loc
                  /\ api[k].issueId = <<"uuid of ", args.ticket_id>>
           /\ "issueId" \notin DOMAIN loc => CallsOf("createComment") = {}
    /\ (tool = "create_issue" /\ args.parent_issue_id # NoParent) =>
           /\ \A k \in CallsOf("createIssue") :
                  /\ k = 2
                  /\ api[1] = [op |-> "issue", id |-> args.parent_issue_id]
                  /\ "parentId" \in DOMAIN loc
                  /\ api[k].params.parentId = <<"uuid of ", args.parent_issue_id>>
                  /\ api[k].params.parentId # <<args.parent_issue_id>>
           /\ "parentId" \notin DOMAIN loc => CallsOf("createIssue") = {}
    /\ (tool \in {"add_comment", "create_issue"} /\ pc = "returned"
            /\ LastCall.op = "issue") =>
           (resp.isError /\ Len(api) = 1)

C22_Witness ==
    /\ tool = "create_issue"
    /\ args.parent_issue_id = "LAR-1"
    /\ pc = "returned"
    /\ ~resp.isError
    /\ Len(api) = 3
    /\ api[2].op = "createIssue"
    /\ api[2].params.parentId = <<"uuid of ", "LAR-1">>

\* The content blocks of get_ticket once the formatted text has been pushed.
HasBlocks ==
    /\ tool = "get_ticket"
    /\ pc \in {"read", "returned"}
    /\ "contentBlocks" \in DOMAIN loc

\* C23: a successful get_ticket response holds exactly one text block, first,
\* and after it image blocks only, at most one for each image that was
\* downloaded; an image whose cached file cannot be read back is left out,
\* and the response is still no error.
C23_TextThenImages ==
    HasBlocks =>
        /\ Len(loc.contentBlocks) >= 1
        /\ loc.contentBlocks[1].type = "text"
        /\ \A k \in 2..Len(loc.contentBlocks) : loc.contentBlocks[k].type = "image"
        /\ Len(loc.contentBlocks) <= loc.next
        /\ loc.next - 1 <= Len(pm[1].images)
        /\ ~loc.readFailed => Len(loc.contentBlocks) = loc.next
        /\ pc = "returned" =>
               /\ ~resp.isError
               /\ resp.content = loc.contentBlocks
               /\ Len(resp.content) <= 1 + Len(pm[1].images)

C23_Witness ==
    /\ HasBlocks
    /\ pc = "returned"
    /\ loc.readFailed
    /\ Len(pm[1].images) = 1
    /\ files[pm[1].images[1].path].state = "full"
    /\ ~resp.isError
    /\ Len(resp.content) = 1
    /\ resp.content[1].type = "text"

\* C24 as stated: when a get_my_issues invocation that found N issues has
\* returned, the enrichment of every one of the N issues has been started,
\* also of those that had to wait for one of the 3 places.
C24_AllEnriched ==
    (InFanOut /\ pc = "returned") =>
        \A i \in DOMAIN loc.mp : loc.mp[i].pc # "waiting"

\* C25: in a get_ticket run the creation of the cache directory is attempted
\* and over before the run's first existence check, write or tracker call;
\* the creation leaves an existing directory and its files as they are; a
\* creation that fails returns no response, and the run goes on to the
\* ticket lookup.
C25_DirectoryFirst ==
    /\ [](tool = "get_ticket" =>
              /\ pc = "mkdir" => (api = <<>> /\ pm[1] = IdleCall)
              /\ pc # "mkdir" => "mkdirOk" \in DOMAIN loc
              /\ (pc = "returned" /\ resp.isError) =>
                     (thrown # NoExc \/ LastCall.op = "issue"))
    /\ [][(tool = "get_ticket" /\ pc = "mkdir" /\ pc' # "mkdir") =>
              /\ pc' = "issue"
              /\ resp' = resp
              /\ thrown' = thrown
              /\ files' = files
              /\ dir = "present" => dir' = "present"
              /\ loc'.mkdirOk => dir' = "present"]_vars
    /\ [][(tool = "get_ticket" /\ pc # "returned"
               /\ (pm' # pm \/ files' # files)) =>
              (pc # "mkdir" /\ "mkdirOk" \in DOMAIN loc)]_vars

C25_Witness ==
    /\ tool = "get_ticket"
    /\ pc = "returned"
    /\ "contentBlocks" \in DOMAIN loc
    /\ ~loc.mkdirOk
    /\ dir = "absent"
    /\ Len(pm[1].tasks) >= 1
    /\ ~resp.isError

\* What the claim gives for each URL: "https://h/a.png" and
\* "https://h/c.jpg?v=2" do not end with .jpg or .jpeg, "https://h/d.JPG"
\* lower-cased does.
EndsWithJpeg(url) == url = UrlJ

\* C26: the image block pushed for an image has mimeType image/jpeg exactly
\* when the lower-cased URL of the image ends with .jpg or .jpeg, and
\* image/png otherwise, whatever the extension of the cached file is.
C26_MimeFromUrl ==
    [][(/\ tool = "get_ticket" /\ pc = "read"
        /\ Len(loc'.contentBlocks) = Len(loc.contentBlocks) + 1) =>
           LET image == pm[1].images[loc.next]
               block == loc'.contentBlocks[Len(loc'.contentBlocks)]
           IN  /\ image.url \in {UrlA, UrlQ, UrlJ}
               /\ block.type = "image"
               /\ block.mimeType = (IF EndsWithJpeg(image.url)
                                    THEN "image/jpeg" ELSE "image/png")]_vars

C26_Witness ==
    /\ HasBlocks
    /\ pc = "returned"
    /\ Len(pm[1].images) = 1
    /\ pm[1].images[1].url = UrlQ
    /\ pm[1].images[1].path[Len(pm[1].images[1].path)] = ".jpg"
    /\ Len(resp.content) = 2
    /\ resp.content[2].mimeType = "image/png"

\* C27: get_my_issues queries the issues only after the viewer was resolved,
\* and for that viewer; when the viewer cannot be determined the response is
\* an error block and no issue query is made; when the query gives no issue
\* the response is one informational text block, no error, and no
\* enrichment is started.
C27_ViewerFirst ==
    /\ [](tool = "get_my_issues" =>
              /\ \A k \in CallsOf("issues") :
                     /\ k = 2
                     /\ api[1] = [op |-> "viewer"]
                     /\ api[k].filter.assignee = {Constraint("id", "eq", {Viewer.id})}
              /\ (pc = "returned" /\ LastCall.op = "viewer") =>
                     /\ resp.isError
                     /\ Len(resp.content) = 1
                     /\ resp.content[1].type = "text"
                     /\ CallsOf("issues") = {}
                     /\ "mp" \notin DOMAIN loc
                     /\ thrown = NoExc =>
                            ResponseText = <<"Could not determine the current user">>
              /\ "mp" \in DOMAIN loc => Len(loc.issues) >= 1)
    /\ [][(/\ tool = "get_my_issues" /\ pc = "issues"
            /\ pc' = "returned" /\ thrown' = NoExc) =>
               /\ ~resp'.isError
               /\ Len(resp'.content) = 1
               /\ resp'.content[1].type = "text"
               /\ resp'.content[1].text =
                      <<"No ", args.state, " issues found assigned to you.">>
               /\ "mp" \notin DOMAIN loc']_vars

C27_Witness ==
    /\ tool = "get_my_issues"
    /\ args.state = "active"
    /\ pc = "returned"
    /\ thrown = NoExc
    /\ Len(api) = 2
    /\ LastCall.op = "issues"
    /\ "mp" \notin DOMAIN loc
    /\ ~resp.isError
    /\ ResponseText = <<"No ", "active", " issues found assigned to you.">>

====
